---- MODULE Spec2Model ----
(***************************************************************************)
(* Model of the multi-account CDK CI/CD pipeline repository:               *)
(*   - cdk/lib/cdk-pipeline-stack.ts: AppStage and the CdkPipelineStack    *)
(*     constructor, statement by statement, followed by the runs of the    *)
(*     pipeline the constructor declares;                                  *)
(*   - Lambda handler A (the Apollo handler with the unawaited database    *)
(*     connection) and Lambda handler B (the diagnostic stub).             *)
(***************************************************************************)
EXTENDS Naturals, Sequences, FiniteSets, TLC

VARIABLES
    \* ---- CdkPipelineStack constructor --------------------------------
    pc,                 \* the statement of the constructor that runs next
    processEnv,         \* process.env ("" is an unset or empty variable)
    stackRegion,        \* props.env.region of the pipeline stack
    appChildren,        \* scope.node.children, in creation order
    waves,              \* the CodePipeline's waves, in addWave order
    stages,             \* the AppStage objects, in construction order
    built,              \* buildPipeline() has materialised the pipeline
    artifactBucket,     \* loggingConfiguration of the artifact CfnBucket
    accessLogsBucket,   \* bucketName of the access-log Bucket
    i,                  \* the loop variable of the scan (1-based)
    \* ---- a run of the deployed pipeline ------------------------------
    runs,               \* pipeline executions started so far
    status,             \* stage id -> pending/deploying/succeeded/failed
    approval,           \* pre step -> pending/approved/rejected
    \* ---- Lambda handler A -------------------------------------------
    aPc,                \* per execution environment: position in the module
    aConn,              \* per execution environment: the promise of createConnection()
    aInFlight,          \* per execution environment: handler invocations running
    aServed,            \* per execution environment: invocations completed
    \* ---- Lambda handler B -------------------------------------------
    bPc,                \* position inside the handler
    bEvent,             \* the event of the invocation in progress
    bContext,           \* the context of the invocation in progress
    bLog,               \* console output, in order
    bResult,            \* the value the last invocation's promise resolved to
    bCount              \* invocations started so far

pipeVars == <<pc, processEnv, stackRegion, appChildren, waves, stages, built,
              artifactBucket, accessLogsBucket, i, runs, status, approval>>
aVars == <<aPc, aConn, aInFlight, aServed>>
bVars == <<bPc, bEvent, bContext, bLog, bResult, bCount>>
vars == <<pipeVars, aVars, bVars>>

(***************************************************************************)
(* Bounds                                                                  *)
(***************************************************************************)
MaxOtherChildren == 1   \* stacks the app holds besides the pipeline stack
MaxRuns == 2            \* pipeline executions
MaxInvocationsA == 2    \* invocations served per execution environment
MaxInvocationsB == 2    \* invocations of handler B

Regions == {"us-east-1", "eu-west-1"}
Accounts == {"111111111111"}

(***************************************************************************)
(* process.env and the fallbacks of lines 63-67                            *)
(***************************************************************************)
EnvKeys == {"DEV_ACCOUNT_ID", "STG_ACCOUNT_ID", "PRD_ACCOUNT_ID",
            "PRIMARY_REGION", "SECONDARY_REGION"}

EnvValues(k) == IF k \in {"PRIMARY_REGION", "SECONDARY_REGION"}
                THEN Regions \cup {""} ELSE Accounts \cup {""}

\* process.env.X || fallback
OrDefault(v, fallback) == IF v = "" THEN fallback ELSE v

devAccountId == OrDefault(processEnv["DEV_ACCOUNT_ID"], "undefined")
stgAccountId == OrDefault(processEnv["STG_ACCOUNT_ID"], "undefined")
prdAccountId == OrDefault(processEnv["PRD_ACCOUNT_ID"], "undefined")
primaryRegion == OrDefault(processEnv["PRIMARY_REGION"], "undefined")
secondaryRegion == OrDefault(processEnv["SECONDARY_REGION"], "undefined")
acccessLogsBucketNameStr == "MultiAccountAccessLogsBucket"
logFilePrefixStr == "logs/"

(***************************************************************************)
(* Values                                                                  *)
(***************************************************************************)
\* An optional property that was not given.
undefined == "undefined"

\* A bucket name is either a literal string or the token of a Bucket
\* construct's bucketName (a reference CloudFormation resolves to the
\* physical name it generates for that bucket).
Literal(s) == [kind |-> "literal", value |-> s]
BucketNameToken(constructId) == [kind |-> "token", value |-> constructId]

NoLoggingConfiguration ==
    [destinationBucketName |-> Literal(""), logFilePrefix |-> ""]

Child(type, id) ==
    [type |-> type, id |-> id, loggingConfiguration |-> NoLoggingConfiguration]

(***************************************************************************)
(* AppStage                                                                *)
(***************************************************************************)
\* new RDSStack(this, 'RDSStack', {...}) as AppStage calls it: the stack
\* keeps what it is given and exposes its own database instance.
RDSStack(id, props) ==
    [stage |-> id,
     secretReplicationRegions |->
        IF "secretReplicationRegions" \in DOMAIN props
        THEN props.secretReplicationRegions ELSE <<>>,
     primaryRdsInstance |->
        IF "primaryRdsInstance" \in DOMAIN props
        THEN props.primaryRdsInstance ELSE undefined,
     postgresRDSInstance |-> id \o "/RDSStack/postgresRDSInstance"]

AppStage(id, props) ==
    [id |-> id, env |-> props.env, rdsStack |-> RDSStack(id, props)]

HasStage(id) == \E k \in 1..Len(stages) : stages[k].id = id
StageIndex(id) == CHOOSE k \in 1..Len(stages) : stages[k].id = id
StageById(id) == stages[StageIndex(id)]

(***************************************************************************)
(* CodePipeline: addWave, Wave.addStage                                    *)
(***************************************************************************)
WaveIndex(name) == CHOOSE k \in 1..Len(waves) : waves[k].id = name

addWave(name, pre) ==
    Append(waves, [id |-> name, pre |-> pre, stages |-> <<>>])

addStage(waveName, stageId) ==
    [waves EXCEPT ![WaveIndex(waveName)].stages = Append(@, stageId)]

\* The stage ids the pipeline deploys, in wave order.
RECURSIVE Flatten(_)
Flatten(ws) == IF ws = <<>> THEN <<>> ELSE Head(ws).stages \o Flatten(Tail(ws))

Range(s) == {s[k] : k \in 1..Len(s)}

(***************************************************************************)
(* The CdkPipelineStack constructor, one action per statement              *)
(***************************************************************************)
StageIds == {"dev", "qa", "stg-primary", "prd-primary", "stg-backup", "prd-backup"}
StepIds == {"ProdManualApproval"}

runIdle == /\ runs = 0
           /\ status = [s \in StageIds |-> "pending"]
           /\ approval = [a \in StepIds |-> "pending"]

PipeInit ==
    /\ pc = "super"
    /\ processEnv \in {e \in [EnvKeys -> Regions \cup Accounts \cup {""}] :
                          \A k \in EnvKeys : e[k] \in EnvValues(k)}
    /\ stackRegion \in Regions
    /\ \E n \in 0..MaxOtherChildren :
          appChildren = [k \in 1..n |-> Child("Stack", "Other" \o ToString(k))]
    /\ waves = <<>>
    /\ stages = <<>>
    /\ built = FALSE
    /\ artifactBucket = NoLoggingConfiguration
    /\ accessLogsBucket = Literal("")
    /\ i = 1
    /\ runIdle

\* Control passes to the statement named next.
Goto(next) == pc' = next

threw == pc = "threw"

\* line 50: super(scope, id, props) makes the stack a child of the app
SuperStack ==
    /\ pc = "super"
    /\ appChildren' = Append(appChildren, Child("CdkPipelineStack", "CdkPipelineStack"))
    /\ Goto("new_pipeline")
    /\ UNCHANGED <<aVars, bVars, processEnv, stackRegion, waves, stages, built, artifactBucket,
                   accessLogsBucket, i, runs, status, approval>>

\* lines 70-82: new CodePipeline(this, 'Pipeline', {...}): no waves, not built
NewCodePipeline ==
    /\ pc = "new_pipeline"
    /\ waves' = <<>>
    /\ built' = FALSE
    /\ Goto("addWave_devQa")
    /\ UNCHANGED <<aVars, bVars, processEnv, stackRegion, appChildren, stages, artifactBucket,
                   accessLogsBucket, i, runs, status, approval>>

\* pipeline.addWave(name, {pre}) at `at`; CodePipeline refuses it once built
AddWaveAt(at, next, name, pre) ==
    /\ pc = at
    /\ IF built
       THEN Goto("threw") /\ UNCHANGED waves
       ELSE waves' = addWave(name, pre) /\ Goto(next)
    /\ UNCHANGED <<aVars, bVars, processEnv, stackRegion, appChildren, stages, built,
                   artifactBucket, accessLogsBucket, i, runs, status, approval>>

\* new AppStage(this, id, props) at `at`
NewAppStageAt(at, next, id, props) ==
    /\ pc = at
    /\ stages' = Append(stages, AppStage(id, props))
    /\ Goto(next)
    /\ UNCHANGED <<aVars, bVars, processEnv, stackRegion, appChildren, waves, built,
                   artifactBucket, accessLogsBucket, i, runs, status, approval>>

\* wave.addStage(stage) at `at`
AddStageAt(at, next, waveName, stageId) ==
    /\ pc = at
    /\ IF built
       THEN Goto("threw") /\ UNCHANGED waves
       ELSE waves' = addStage(waveName, stageId) /\ Goto(next)
    /\ UNCHANGED <<aVars, bVars, processEnv, stackRegion, appChildren, stages, built,
                   artifactBucket, accessLogsBucket, i, runs, status, approval>>

\* line 85
AddWave_devQaWave ==
    AddWaveAt("addWave_devQa", "new_dev", "DEV-and-QA-Deployments", <<>>)

\* lines 86-88
New_dev ==
    NewAppStageAt("new_dev", "new_qa", "dev",
        [env |-> [account |-> devAccountId, region |-> primaryRegion]])

\* lines 90-92
New_qa ==
    NewAppStageAt("new_qa", "addStage_dev", "qa",
        [env |-> [account |-> devAccountId, region |-> secondaryRegion]])

\* line 94
AddStage_dev ==
    AddStageAt("addStage_dev", "addStage_qa", "DEV-and-QA-Deployments", "dev")

\* line 95
AddStage_qa ==
    AddStageAt("addStage_qa", "addWave_primary", "DEV-and-QA-Deployments", "qa")

\* lines 97-99 with the pre step left out
AddWave_primaryRdsRegionWaveNoPre ==
    AddWaveAt("addWave_primary", "new_stgPrimary", "Primary-DB-Region-Deployments", <<>>)

\* lines 97-99
AddWave_primaryRdsRegionWave ==
    AddWaveAt("addWave_primary", "new_stgPrimary", "Primary-DB-Region-Deployments",
              <<"ProdManualApproval">>)

\* lines 100-103
New_stgPrimary ==
    NewAppStageAt("new_stgPrimary", "new_prdPrimary", "stg-primary",
        [env |-> [account |-> stgAccountId, region |-> primaryRegion],
         secretReplicationRegions |-> <<secondaryRegion>>])

\* lines 104-107
New_prdPrimary ==
    NewAppStageAt("new_prdPrimary", "addStage_stgPrimary", "prd-primary",
        [env |-> [account |-> prdAccountId, region |-> primaryRegion],
         secretReplicationRegions |-> <<secondaryRegion>>])

\* line 108 with stg-primary added to the first wave
AddStage_stgPrimaryToDevQaWave ==
    AddStageAt("addStage_stgPrimary", "addStage_prdPrimary",
               "DEV-and-QA-Deployments", "stg-primary")

\* line 108
AddStage_stgPrimary ==
    AddStageAt("addStage_stgPrimary", "addStage_prdPrimary",
               "Primary-DB-Region-Deployments", "stg-primary")

\* line 109
AddStage_prdPrimary ==
    AddStageAt("addStage_prdPrimary", "addWave_secondary",
               "Primary-DB-Region-Deployments", "prd-primary")

\* line 111
AddWave_secondaryRdsRegionWave ==
    AddWaveAt("addWave_secondary", "new_stgBackup", "Secondary-DB-Region-Deployments", <<>>)

\* lines 112-115 with the secret replication of the primary copied along
New_stgBackupWithSecretReplication ==
    NewAppStageAt("new_stgBackup", "new_prdBackup", "stg-backup",
        [env |-> [account |-> stgAccountId, region |-> secondaryRegion],
         secretReplicationRegions |-> <<secondaryRegion>>,
         primaryRdsInstance |-> StageById("stg-primary").rdsStack.postgresRDSInstance])

\* lines 112-115
New_stgBackup ==
    NewAppStageAt("new_stgBackup", "new_prdBackup", "stg-backup",
        [env |-> [account |-> stgAccountId, region |-> secondaryRegion],
         primaryRdsInstance |-> StageById("stg-primary").rdsStack.postgresRDSInstance])

\* lines 116-119 replicating the instance of stg-primary
New_prdBackupOfStgPrimary ==
    NewAppStageAt("new_prdBackup", "addStage_stgBackup", "prd-backup",
        [env |-> [account |-> prdAccountId, region |-> secondaryRegion],
         primaryRdsInstance |-> StageById("stg-primary").rdsStack.postgresRDSInstance])

\* lines 116-119
New_prdBackup ==
    NewAppStageAt("new_prdBackup", "addStage_stgBackup", "prd-backup",
        [env |-> [account |-> prdAccountId, region |-> secondaryRegion],
         primaryRdsInstance |-> StageById("prd-primary").rdsStack.postgresRDSInstance])

\* line 120 with stg-backup added to the wave of its primary
AddStage_stgBackupToPrimaryWave ==
    AddStageAt("addStage_stgBackup", "addStage_prdBackup",
               "Primary-DB-Region-Deployments", "stg-backup")

\* line 120
AddStage_stgBackup ==
    AddStageAt("addStage_stgBackup", "addStage_prdBackup",
               "Secondary-DB-Region-Deployments", "stg-backup")

\* line 121
AddStage_prdBackup ==
    AddStageAt("addStage_prdBackup", "buildPipeline",
               "Secondary-DB-Region-Deployments", "prd-backup")

\* The cross-region support stacks buildPipeline() adds to the app: one per
\* region a stage deploys to other than the pipeline stack's own, in the
\* order the stages come in the pipeline.
RECURSIVE SupportStacks(_, _)
SupportStacks(ids, seen) ==
    IF ids = <<>> THEN <<>>
    ELSE LET r == StageById(Head(ids)).env.region IN
         IF r = stackRegion \/ r \in seen
         THEN SupportStacks(Tail(ids), seen)
         ELSE <<Child("CrossRegionSupportStack", "cross-region-stack-" \o r)>>
              \o SupportStacks(Tail(ids), seen \cup {r})

\* line 124 left out: the constructor goes on without building the pipeline
BuildPipelineSkipped ==
    /\ pc = "buildPipeline"
    /\ Goto("new_accessLogsBucket")
    /\ UNCHANGED <<aVars, bVars, processEnv, stackRegion, appChildren, waves, stages,
                   built, artifactBucket, accessLogsBucket, i, runs, status, approval>>

\* line 124: pipeline.buildPipeline()
BuildPipeline ==
    /\ pc = "buildPipeline"
    /\ built' = TRUE
    /\ artifactBucket' = NoLoggingConfiguration
    /\ appChildren' = appChildren \o SupportStacks(Flatten(waves), {})
    /\ Goto("new_accessLogsBucket")
    /\ UNCHANGED <<aVars, bVars, processEnv, stackRegion, waves, stages, accessLogsBucket, i,
                   runs, status, approval>>

\* lines 128-138: new Bucket(this, acccessLogsBucketNameStr, {...}) with no
\* bucketName property: its bucketName is a token
NewAccessLogsBucket ==
    /\ pc = "new_accessLogsBucket"
    /\ accessLogsBucket' = BucketNameToken(acccessLogsBucketNameStr)
    /\ Goto("artifactLogging")
    /\ UNCHANGED <<aVars, bVars, processEnv, stackRegion, appChildren, waves, stages, built,
                   artifactBucket, i, runs, status, approval>>

\* lines 141-147: pipeline.pipeline throws until buildPipeline() was called
SetArtifactLogging ==
    /\ pc = "artifactLogging"
    /\ IF built
       THEN /\ artifactBucket' = [destinationBucketName |-> accessLogsBucket,
                                  logFilePrefix |-> logFilePrefixStr]
            /\ Goto("scan")
       ELSE /\ Goto("threw")
            /\ UNCHANGED artifactBucket
    /\ i' = 1
    /\ UNCHANGED <<aVars, bVars, processEnv, stackRegion, appChildren, waves, stages, built,
                   accessLogsBucket, runs, status, approval>>

\* lines 152-159 without the test of the type name
ScanChildNoTypeTest(child) ==
    [child EXCEPT !.loggingConfiguration =
        [destinationBucketName |-> Literal(acccessLogsBucketNameStr),
         logFilePrefix |-> logFilePrefixStr]]

\* lines 152-159: the body of the loop for child i
ScanChild(child) ==
    IF child.type = "CrossRegionSupportStack"
    THEN [child EXCEPT !.loggingConfiguration =
            [destinationBucketName |-> Literal(acccessLogsBucketNameStr),
             logFilePrefix |-> logFilePrefixStr]]
    ELSE child

\* lines 150-160: one iteration of the loop over scope.node.children
ScanStep ==
    /\ pc = "scan"
    /\ i <= Len(appChildren)
    /\ appChildren' = [appChildren EXCEPT ![i] = ScanChild(appChildren[i])]
    /\ i' = i + 1
    /\ UNCHANGED <<aVars, bVars, pc, processEnv, stackRegion, waves, stages, built,
                   artifactBucket, accessLogsBucket, runs, status, approval>>

\* line 151: the loop condition fails, the constructor returns
ScanDone ==
    /\ pc = "scan"
    /\ ~(i <= Len(appChildren))
    /\ Goto("done")
    /\ UNCHANGED <<aVars, bVars, processEnv, stackRegion, appChildren, waves, stages, built,
                   artifactBucket, accessLogsBucket, i, runs, status, approval>>

Construct ==
    \/ SuperStack \/ NewCodePipeline
    \/ AddWave_devQaWave \/ New_dev \/ New_qa \/ AddStage_dev \/ AddStage_qa
    \/ AddWave_primaryRdsRegionWave \/ New_stgPrimary \/ New_prdPrimary
    \/ AddStage_stgPrimary \/ AddStage_prdPrimary
    \/ AddWave_secondaryRdsRegionWave \/ New_stgBackup \/ New_prdBackup
    \/ AddStage_stgBackup \/ AddStage_prdBackup
    \/ BuildPipeline \/ NewAccessLogsBucket \/ SetArtifactLogging
    \/ ScanStep \/ ScanDone

(***************************************************************************)
(* A run of the pipeline the constructor declared.  The waves deploy in    *)
(* the order they hold in the pipeline; the stages of one wave deploy in   *)
(* parallel once every pre step of the wave is approved; a failed stage or *)
(* a rejected approval stops the execution.                                *)
(***************************************************************************)
WaveOf(s) == {k \in 1..Len(waves) : s \in Range(waves[k].stages)}

WaveSucceeded(k) == \A s \in Range(waves[k].stages) : status[s] = "succeeded"

EarlierWavesSucceeded(k) == \A j \in 1..(k - 1) : WaveSucceeded(j)

PreApproved(k) == \A a \in Range(waves[k].pre) : approval[a] = "approved"

Stopped == \/ \E s \in StageIds : status[s] = "failed"
           \/ \E a \in StepIds : approval[a] = "rejected"

Deploying == \E s \in StageIds : status[s] = "deploying"

StartExecution ==
    /\ pc = "done"
    /\ runs < MaxRuns
    /\ ~Deploying
    /\ runs' = runs + 1
    /\ status' = [s \in StageIds |-> "pending"]
    /\ approval' = [a \in StepIds |-> "pending"]
    /\ UNCHANGED <<aVars, bVars, pc, processEnv, stackRegion, appChildren, waves, stages, built,
                   artifactBucket, accessLogsBucket, i>>

Decide(k, a, verdict) ==
    /\ pc = "done"
    /\ runs >= 1
    /\ ~Stopped
    /\ a \in Range(waves[k].pre)
    /\ EarlierWavesSucceeded(k)
    /\ approval[a] = "pending"
    /\ approval' = [approval EXCEPT ![a] = verdict]
    /\ UNCHANGED <<aVars, bVars, pc, processEnv, stackRegion, appChildren, waves, stages, built,
                   artifactBucket, accessLogsBucket, i, runs, status>>

ApproveStep == \E k \in 1..Len(waves) : \E a \in StepIds : Decide(k, a, "approved")

RejectStep == \E k \in 1..Len(waves) : \E a \in StepIds : Decide(k, a, "rejected")

StartStage ==
    \E s \in StageIds : \E k \in WaveOf(s) :
        /\ pc = "done"
        /\ runs >= 1
        /\ ~Stopped
        /\ EarlierWavesSucceeded(k)
        /\ PreApproved(k)
        /\ status[s] = "pending"
        /\ status' = [status EXCEPT ![s] = "deploying"]
        /\ UNCHANGED <<aVars, bVars, pc, processEnv, stackRegion, appChildren, waves, stages, built,
                       artifactBucket, accessLogsBucket, i, runs, approval>>

Finish(s, outcome) ==
    /\ status[s] = "deploying"
    /\ status' = [status EXCEPT ![s] = outcome]
    /\ UNCHANGED <<aVars, bVars, pc, processEnv, stackRegion, appChildren, waves, stages, built,
                   artifactBucket, accessLogsBucket, i, runs, approval>>

StageSucceeds == \E s \in StageIds : Finish(s, "succeeded")

StageFails == \E s \in StageIds : Finish(s, "failed")

Run == \/ StartExecution \/ ApproveStep \/ RejectStep
       \/ StartStage \/ StageSucceeds \/ StageFails

(***************************************************************************)
(* Lambda handlers: idle in the pipeline's specification                   *)
(***************************************************************************)
ExecEnvs == {"env1", "env2"}

AIdle ==
    /\ aPc = [e \in ExecEnvs |-> "unloaded"]
    /\ aConn = [e \in ExecEnvs |-> "none"]
    /\ aInFlight = [e \in ExecEnvs |-> 0]
    /\ aServed = [e \in ExecEnvs |-> 0]

BIdle ==
    /\ bPc = "idle"
    /\ bEvent = "null"
    /\ bContext = [logStreamName |-> ""]
    /\ bLog = <<>>
    /\ bResult = ""
    /\ bCount = 0

PipeIdle ==
    /\ pc = "super"
    /\ processEnv = [k \in EnvKeys |-> ""]
    /\ stackRegion = "us-east-1"
    /\ appChildren = <<>>
    /\ waves = <<>>
    /\ stages = <<>>
    /\ built = FALSE
    /\ artifactBucket = NoLoggingConfiguration
    /\ accessLogsBucket = Literal("")
    /\ i = 1
    /\ runIdle

(***************************************************************************)
(* Specification of the pipeline: construction, then executions            *)
(***************************************************************************)
Init == PipeInit /\ AIdle /\ BIdle

Next == Construct \/ Run

Spec == Init /\ [][Next]_vars

(***************************************************************************)
(* Claims about the pipeline                                               *)
(***************************************************************************)
WaveNames == [k \in 1..Len(waves) |-> waves[k].id]

DevQaStages == {"dev", "qa"}
PrimaryStages == {"stg-primary", "prd-primary"}
SecondaryStages == {"stg-backup", "prd-backup"}

Begun(s) == status[s] # "pending"

\* C1: in every pipeline run the waves deploy in the order they were added:
\* the finished constructor holds the three waves in declaration order, no
\* stage of the primary wave has begun before dev and qa both succeeded,
\* and no stage of the secondary wave has begun before stg-primary and
\* prd-primary both succeeded.
C1_WavesDeployInDeclarationOrder ==
    /\ pc = "done" =>
         /\ WaveNames = <<"DEV-and-QA-Deployments", "Primary-DB-Region-Deployments",
                          "Secondary-DB-Region-Deployments">>
         /\ \A k \in 1..Len(waves) : \A s \in Range(waves[k].stages) :
               Begun(s) => EarlierWavesSucceeded(k)
    /\ \A s \in PrimaryStages : Begun(s) => \A d \in DevQaStages : status[d] = "succeeded"
    /\ \A s \in SecondaryStages : Begun(s) => \A d \in PrimaryStages : status[d] = "succeeded"

\* C1 witness: a run has reached the third wave.
C1_Witness ==
    /\ status["stg-backup"] = "deploying"
    /\ status["prd-backup"] = "pending"
    /\ status["dev"] = "succeeded"

\* C2: neither stg-primary nor prd-primary has begun deploying unless the
\* ProdManualApproval step of this run is approved.
C2_PrimaryWaveGatedByApproval ==
    \A s \in PrimaryStages : Begun(s) => approval["ProdManualApproval"] = "approved"

\* C2 witness: the approval was given and a primary stage deploys.
C2_Witness ==
    /\ approval["ProdManualApproval"] = "approved"
    /\ status["prd-primary"] = "deploying"

\* C3: each secondary stage is given exactly the instance of the primary
\* stage of its tier, that primary stage was constructed earlier, and no
\* other stage is given a primary instance.
PrimaryOf(id) == IF id = "stg-backup" THEN "stg-primary" ELSE "prd-primary"

C3_SecondaryReplicatesItsPrimary ==
    \A k \in 1..Len(stages) :
        LET st == stages[k] IN
        IF st.id \in SecondaryStages
        THEN /\ HasStage(PrimaryOf(st.id))
             /\ StageIndex(PrimaryOf(st.id)) < k
             /\ st.rdsStack.primaryRdsInstance =
                    StageById(PrimaryOf(st.id)).rdsStack.postgresRDSInstance
             /\ st.rdsStack.primaryRdsInstance # undefined
        ELSE st.rdsStack.primaryRdsInstance = undefined

\* C3 witness: both secondary stages are constructed, each with a handle.
C3_Witness ==
    /\ HasStage("stg-backup") /\ HasStage("prd-backup")
    /\ StageById("prd-backup").rdsStack.primaryRdsInstance
          = "prd-primary/RDSStack/postgresRDSInstance"
    /\ StageById("stg-backup").rdsStack.primaryRdsInstance
          = "stg-primary/RDSStack/postgresRDSInstance"

LoggingToAccessLogBucket ==
    [destinationBucketName |-> accessLogsBucket, logFilePrefix |-> logFilePrefixStr]

CrossRegionChildren ==
    {k \in 1..Len(appChildren) : appChildren[k].type = "CrossRegionSupportStack"}

\* C4: after the constructor the artifact bucket and every cross-region
\* replication bucket log to the one access-log bucket, by that bucket's own
\* name, under the prefix logs/.
C4_AllBucketsLogToAccessLogBucket ==
    pc = "done" =>
        /\ artifactBucket = LoggingToAccessLogBucket
        /\ \A k \in CrossRegionChildren :
              appChildren[k].loggingConfiguration = LoggingToAccessLogBucket

\* C5: buildPipeline runs after every addWave and addStage and before the
\* post-processing that reads the artifact bucket or scans the app's
\* children: nothing throws, the post-processing only runs on a built
\* pipeline, and a built pipeline holds all three waves and six stages.
C5_BuildBetweenDeclarationAndPostProcessing ==
    /\ ~threw
    /\ (pc \in {"scan", "done"} \/ artifactBucket # NoLoggingConfiguration) => built
    /\ built => /\ Len(waves) = 3
                /\ Flatten(waves) = <<"dev", "qa", "stg-primary", "prd-primary",
                                      "stg-backup", "prd-backup">>

\* C5 witness: the constructor returned with the artifact bucket wired.
C5_Witness ==
    /\ pc = "done"
    /\ built
    /\ artifactBucket # NoLoggingConfiguration

\* C6: a secondary stage has begun deploying only if the primary stage of
\* its tier has succeeded in this run.
C6_SecondaryAfterItsPrimary ==
    \A s \in SecondaryStages : Begun(s) => status[PrimaryOf(s)] = "succeeded"

\* C6 witness: a replica has been deployed.
C6_Witness ==
    /\ status["prd-backup"] = "succeeded"
    /\ status["prd-primary"] = "succeeded"

\* C7: only stg-primary and prd-primary hand a non-empty list of secret
\* replication regions to their RDS stack; every other stage hands <<>>.
C7_SecretReplicationOnlyOnPrimaries ==
    \A k \in 1..Len(stages) :
        /\ Len(stages[k].rdsStack.secretReplicationRegions) > 0
               => stages[k].id \in PrimaryStages
        /\ stages[k].id \notin PrimaryStages
               => stages[k].rdsStack.secretReplicationRegions = <<>>

\* C7 witness: all six stages exist and a primary replicates its secret.
C7_Witness ==
    /\ Len(stages) = 6
    /\ StageById("stg-primary").rdsStack.secretReplicationRegions = <<"eu-west-1">>
    /\ StageById("dev").rdsStack.secretReplicationRegions = <<>>

\* C10: the scan raises nothing; a child whose type name is not
\* CrossRegionSupportStack keeps its logging configuration, a matching child
\* is changed only by the scan passing over it, and the artifact bucket's
\* logging is set when the constructor returns, also when no child matches.
C10_ScanChangesOnlyMatchingChildren ==
    /\ ~threw
    /\ \A k \in 1..Len(appChildren) :
          IF appChildren[k].type = "CrossRegionSupportStack"
          THEN \/ /\ appChildren[k].loggingConfiguration = NoLoggingConfiguration
                  /\ (pc \in {"scan", "done"} => k >= i)
               \/ /\ appChildren[k].loggingConfiguration.logFilePrefix = logFilePrefixStr
                  /\ pc \in {"scan", "done"}
                  /\ k < i
          ELSE appChildren[k].loggingConfiguration = NoLoggingConfiguration
    /\ pc = "done" => artifactBucket = LoggingToAccessLogBucket

\* C10 witness: the constructor returned, the app has children, none of
\* them matched, and the artifact bucket's logging is set.
C10_Witness ==
    /\ pc = "done"
    /\ Len(appChildren) >= 2
    /\ CrossRegionChildren = {}
    /\ artifactBucket = LoggingToAccessLogBucket

(***************************************************************************)
(* Lambda handler A.  Each execution environment loads the module once     *)
(* (lines 8-21, synchronously) and then serves one invocation at a time;   *)
(* concurrent invocations run in separate execution environments.          *)
(***************************************************************************)
\* line 12 reads `createConnection();` and not `await createConnection();`
\* (the variant that awaits)
createConnectionAwaitedAtLoad == TRUE

\* line 12: the module does not await the promise of createConnection()
createConnectionAwaited == FALSE

AStep(e, from, to) ==
    /\ aPc[e] = from
    /\ aPc' = [aPc EXCEPT ![e] = to]

\* lines 8-12: createConnection() runs up to `await db()` and hands back a
\* pending promise, which the module drops
CallCreateConnection(e) ==
    /\ AStep(e, "unloaded", "new_server")
    /\ aConn' = [aConn EXCEPT ![e] = "pending"]
    /\ UNCHANGED <<pipeVars, bVars, aInFlight, aServed>>

\* lines 14-19: new ApolloServer({...})
NewApolloServer(e) ==
    /\ createConnectionAwaited => aConn[e] = "resolved"
    /\ AStep(e, "new_server", "create_handler")
    /\ UNCHANGED <<pipeVars, bVars, aConn, aInFlight, aServed>>

\* line 21: export const handler = server.createHandler()
CreateHandler(e) ==
    /\ AStep(e, "create_handler", "ready")
    /\ UNCHANGED <<pipeVars, bVars, aConn, aInFlight, aServed>>

\* The continuation of `await db()` (line 9) runs only when no synchronous
\* code of the module is running: after the module is loaded, or while the
\* module is suspended in an await of its own.
ModuleYielded(e) ==
    \/ aPc[e] = "ready"
    \/ createConnectionAwaited /\ aPc[e] = "new_server"

\* line 9: db() settles
SettleConnection(e, outcome) ==
    /\ ModuleYielded(e)
    /\ aConn[e] = "pending"
    /\ aConn' = [aConn EXCEPT ![e] = outcome]
    /\ UNCHANGED <<pipeVars, bVars, aPc, aInFlight, aServed>>

ConnectionResolves == \E e \in ExecEnvs : SettleConnection(e, "resolved")

ConnectionRejects == \E e \in ExecEnvs : SettleConnection(e, "rejected")

\* line 21: the platform calls the exported handler
InvokeA ==
    \E e \in ExecEnvs :
        /\ aPc[e] = "ready"
        /\ aInFlight[e] = 0
        /\ aServed[e] < MaxInvocationsA
        /\ aInFlight' = [aInFlight EXCEPT ![e] = 1]
        /\ UNCHANGED <<pipeVars, bVars, aPc, aConn, aServed>>

\* line 21: the handler's response is returned
CompleteA ==
    \E e \in ExecEnvs :
        /\ aInFlight[e] = 1
        /\ aInFlight' = [aInFlight EXCEPT ![e] = 0]
        /\ aServed' = [aServed EXCEPT ![e] = @ + 1]
        /\ UNCHANGED <<pipeVars, bVars, aPc, aConn>>

LoadA == \E e \in ExecEnvs :
            \/ CallCreateConnection(e) \/ NewApolloServer(e) \/ CreateHandler(e)

NextA == LoadA \/ ConnectionResolves \/ ConnectionRejects \/ InvokeA \/ CompleteA

InitA == PipeIdle /\ AIdle /\ BIdle

SpecA == InitA /\ [][NextA]_vars

\* C9: the connection is started at module load and not awaited before the
\* server and the handler are constructed: once the server exists the
\* connection has been started, and the connection promise never settles
\* before the handler is exported; so the handler can be invoked while the
\* promise is pending (the witness).
C9_ConnectionNotAwaitedBeforeHandler ==
    \A e \in ExecEnvs :
        /\ aPc[e] \in {"create_handler", "ready"} => aConn[e] # "none"
        /\ aConn[e] \in {"resolved", "rejected"} => aPc[e] = "ready"
        /\ aInFlight[e] = 1 => aPc[e] = "ready"

\* C9 witness: concurrent invocations, in two execution environments, run
\* while the connection promise of each is still pending.
C9_Witness ==
    \A e \in ExecEnvs : aInFlight[e] = 1 /\ aConn[e] = "pending"

(***************************************************************************)
(* Lambda handler B: the diagnostic stub                                   *)
(***************************************************************************)
\* The events the platform delivers are JSON values.
JNull == [t |-> "null", n |-> 0, s |-> "", keys |-> <<>>, items |-> <<>>]
JBool(b) == [t |-> "bool", n |-> 0, s |-> IF b THEN "true" ELSE "false",
             keys |-> <<>>, items |-> <<>>]
JNum(k) == [t |-> "num", n |-> k, s |-> "", keys |-> <<>>, items |-> <<>>]
JStr(x) == [t |-> "str", n |-> 0, s |-> x, keys |-> <<>>, items |-> <<>>]
JArr(xs) == [t |-> "arr", n |-> 0, s |-> "", keys |-> <<>>, items |-> xs]
JObj(ks, xs) == [t |-> "obj", n |-> 0, s |-> "", keys |-> ks, items |-> xs]

Events ==
    {JNull, JBool(TRUE), JNum(42), JStr("ping"), JArr(<<>>), JObj(<<>>, <<>>),
     JArr(<<JNum(1), JNull>>),
     JObj(<<"k">>, <<JNum(42)>>),
     JObj(<<"Records">>, <<JArr(<<JObj(<<"id", "ok">>, <<JStr("a"), JBool(FALSE)>>)>>)>>)}

LogStreamNames == {"2026/11/01/[$LATEST]0a1b", "2026/11/01/[$LATEST]2c3d"}

Contexts == {[logStreamName |-> n, logGroupName |-> "/aws/lambda/handler"] :
                n \in LogStreamNames}

RECURSIVE Spaces(_)
Spaces(k) == IF k = 0 THEN "" ELSE " " \o Spaces(k - 1)

\* JSON.stringify(value, null, 2), for strings that need no escaping
RECURSIVE Stringify(_, _)
RECURSIVE Members(_, _, _)
Stringify(v, level) ==
    CASE v.t = "null" -> "null"
      [] v.t = "bool" -> v.s
      [] v.t = "num" -> ToString(v.n)
      [] v.t = "str" -> "\"" \o v.s \o "\""
      [] v.t = "arr" ->
            IF v.items = <<>> THEN "[]"
            ELSE "[\n" \o Members(<<>>, v.items, level + 1)
                 \o "\n" \o Spaces(2 * level) \o "]"
      [] v.t = "obj" ->
            IF v.items = <<>> THEN "{}"
            ELSE "{\n" \o Members(v.keys, v.items, level + 1)
                 \o "\n" \o Spaces(2 * level) \o "}"

Members(ks, xs, level) ==
    Spaces(2 * level)
    \o (IF ks = <<>> THEN "" ELSE "\"" \o Head(ks) \o "\": ")
    \o Stringify(Head(xs), level)
    \o (IF Len(xs) = 1 THEN ""
        ELSE ",\n" \o Members(IF ks = <<>> THEN <<>> ELSE Tail(ks), Tail(xs), level))

\* the platform invokes handler(event, context)
InvokeB ==
    /\ bPc = "idle"
    /\ bCount < MaxInvocationsB
    /\ bEvent' \in Events
    /\ bContext' \in Contexts
    /\ bCount' = bCount + 1
    /\ bPc' = "log"
    /\ UNCHANGED <<pipeVars, aVars, bLog, bResult>>

\* line 36: console.log('EVENT: \n' + JSON.stringify(event, null, 2))
LogEvent ==
    /\ bPc = "log"
    /\ bLog' = Append(bLog, "EVENT: \n" \o Stringify(bEvent, 0))
    /\ bPc' = "return"
    /\ UNCHANGED <<pipeVars, aVars, bEvent, bContext, bResult, bCount>>

\* line 37 returning another property of the context
ReturnLogGroupName ==
    /\ bPc = "return"
    /\ bResult' = bContext.logGroupName
    /\ bPc' = "idle"
    /\ UNCHANGED <<pipeVars, aVars, bEvent, bContext, bLog, bCount>>

\* line 37: return context.logStreamName
ReturnLogStreamName ==
    /\ bPc = "return"
    /\ bResult' = bContext.logStreamName
    /\ bPc' = "idle"
    /\ UNCHANGED <<pipeVars, aVars, bEvent, bContext, bLog, bCount>>

NextB == InvokeB \/ LogEvent \/ ReturnLogStreamName

InitB == PipeIdle /\ AIdle /\ BIdle

SpecB == InitB /\ [][NextB]_vars

\* C8: handler B resolves to the logStreamName of the context it was called
\* with, whatever the event and whatever earlier invocations did; the log
\* entry of the event is written before the handler returns (one entry per
\* invocation, the newest one that of the current event); the handler has
\* no other outcome.
C8_ReturnsLogStreamNameAfterLogging ==
    /\ bPc \in {"idle", "log", "return"}
    /\ (bPc = "idle" /\ bCount > 0) =>
          /\ bResult = bContext.logStreamName
          /\ bResult \in LogStreamNames
    /\ Len(bLog) = IF bPc = "log" THEN bCount - 1 ELSE bCount
    /\ (bPc # "log" /\ bCount > 0) =>
          bLog[Len(bLog)] = "EVENT: \n" \o Stringify(bEvent, 0)

\* C8 witness: a second invocation, with another event and another context
\* than the first, has logged its event and returned its own log stream.
C8_Witness ==
    /\ bPc = "idle"
    /\ bCount = 2
    /\ bLog = <<"EVENT: \n[\n  1,\n  null\n]", "EVENT: \n{\n  \"k\": 42\n}">>
    /\ bEvent = JObj(<<"k">>, <<JNum(42)>>)
    /\ bResult = "2026/11/01/[$LATEST]2c3d"

====
